---- MODULE Spec2Model ----
(***************************************************************************)
(* Model of the EduMaster video downloader: the VideoDownloader class      *)
(* (src/src/utils/videoDownloader.ts) driven by the App component          *)
(* (src/src/App.tsx).                                                      *)
(*                                                                         *)
(* Granularity.  JavaScript runs each task and the promise reactions it    *)
(* triggers to completion, so one action is one event handler, or one      *)
(* settlement of an awaited promise together with the code that runs up    *)
(* to the next await (and, when the run ends, the continuation of the      *)
(* handleDownload call that awaits it).                                    *)
(*                                                                         *)
(* Platform.  AbortController.abort() makes the pending fetch() or         *)
(* arrayBuffer() that holds its signal reject with an AbortError and with  *)
(* nothing else; a promise that settled before the abort has already run   *)
(* its continuation.  The rejection is delivered in a later step, so other *)
(* events may come in between (an over-approximation of the event loop).   *)
(*                                                                         *)
(* History.  progressLog, errorLog and fetchLog of a run record the calls  *)
(* of onProgress and onError and the fetches it started; events records,   *)
(* in the order the code performs them, its calls of onProgress            *)
(* ("progress"), of fetch ("fetch") and of segments.push ("append").       *)
(***************************************************************************)
EXTENDS Integers, Sequences, FiniteSets, TLC

\* ------------------------------------------------------------------ bounds
MaxSegs == 2        \* longest playlist the server hands out
MaxRuns == 2        \* downloadM3U8 invocations in one behaviour
MaxParts == 3       \* parts a text handed to parsePlaylist is made of
MaxTotal == 250     \* longest playlist whose progress snapshots are computed

\* ------------------------------------------------------- program constants
CountdownStart == 5

\* -------------------------------------------------------------------- state
VARIABLES
  state,                  \* App: 'idle' | 'parsing' | 'ready' | 'downloading' | 'completed'
  playlist,               \* App: None or Some(playlist)
  progress,               \* App: None or Some(snapshot)
  error,                  \* App: "null" or the message shown
  downloadedBlob,         \* App: None or Some(blob)
  directUrl,              \* App: "null" or the direct URL
  autoDownloadCountdown,  \* App: 0 (null) or the seconds left
  countdownTimer,         \* the setInterval of the countdown effect is armed
  mounted,                \* the mount timer (checkDirectUrl) has fired
  pendingParses,          \* handleUrlSubmit calls awaiting their fetch
  abortController,        \* VideoDownloader: 0 (null) or the controller's id
  aborted,                \* the controllers whose signal is aborted
  runs,                   \* the downloadM3U8 invocations, in order of their start
  content,                \* the text given to the last call of parsePlaylist
  baseUrl,                \* the base address given to it
  parsed                  \* how the call ended
                          \* (all three None when a handleUrlSubmit has
                          \* started since, or when the one that settled
                          \* last did not get to call parsePlaylist)

vars == <<state, playlist, progress, error, downloadedBlob, directUrl,
          autoDownloadCountdown, countdownTimer, mounted, pendingParses,
          abortController, aborted, runs, content, baseUrl, parsed>>

parserVars == <<content, baseUrl, parsed>>

\* ----------------------------------------------------------------- helpers
None == <<>>
Some(x) == <<x>>
Last(s) == s[Len(s)]

\* The network: the bytes served for segment uri (two bytes, one byte, no
\* byte, two bytes, ...), each byte naming its segment.
Body(uri) == [b \in 1..((2 * uri) % 3) |-> 10 * uri + b]


\* --------------------------------------------------------------- errors
\* An Error object: its name, its message and the 1-based segment index the
\* message states (0 when the message names no segment).
CancelledError == [name |-> "Error", message |-> "Download cancelled", seg |-> 0]
AbortError     == [name |-> "AbortError", message |-> "The user aborted a request.", seg |-> 0]
FetchTypeError == [name |-> "TypeError", message |-> "Failed to fetch", seg |-> 0]
BodyTypeError  == [name |-> "TypeError", message |-> "network error", seg |-> 0]
NotOkError(k)  == [name |-> "Error", message |-> "Failed to download segment", seg |-> k]

\* ------------------------------------------------------- VideoDownloader
\* Mutant: the percentage of the segment being fetched, not of the one
\* completed (i in place of i + 1).
PercentageZeroBased(k, n) == (200 * (k - 1) + n) \div (2 * n)

\* Mutant: Math.floor in place of Math.round.
PercentageFloor(k, n) == (100 * k) \div n

\* The m for which the double (k / n) * 100 lies just below m + 0.5 although
\* 100 k / n is m + 0.5 (k / n = 0.145, 0.285, 0.565, 0.575); at every
\* other half the double is the half itself
HalvesBelow == {14, 28, 56, 57}

\* Math.round((k / n) * 100) for 0 <= k <= n, in double arithmetic: when
\* 100 k / n is not a half the error of the quotient and of the product is
\* far smaller than its distance to a half, so the result is the nearest
\* integer; Math.round takes a half upwards
Percentage(k, n) ==
  LET m == (100 * k) \div n
  IN IF 200 * k = (2 * m + 1) * n /\ m \in HalvesBelow
       THEN m
       ELSE (200 * k + n) \div (2 * n)

Snapshot(k, n, down, total, pct) ==
  [segmentIndex |-> k, totalSegments |-> n, downloadedBytes |-> down,
   totalBytes |-> total, percentage |-> pct]

\* Mutant: each segment is copied in front of the earlier ones.
RECURSIVE CombineReversed(_)
CombineReversed(bufs) ==
  IF bufs = <<>> THEN <<>> ELSE CombineReversed(Tail(bufs)) \o Head(bufs)

\* lines 68-75: combined = the segments copied one after another
RECURSIVE Combine(_)
Combine(bufs) ==
  IF bufs = <<>> THEN <<>> ELSE Head(bufs) \o Combine(Tail(bufs))

\* line 77
MakeBlob(bufs) == [bytes |-> Combine(bufs), type |-> "video/mp4"]

\* Mutant: the outer catch rethrows whatever it caught.
OuterCatchRethrow(e) == e

\* lines 79-84: the outer catch
OuterCatch(e) == IF e.name = "AbortError" THEN CancelledError ELSE e

\* Mutant: the run that caught an error hands back what it has so far.
ThrowAndReturn(rec, e) ==
  [rec EXCEPT !.pc = "returned", !.error = Some(OuterCatch(e)),
              !.result = Some(MakeBlob(rec.segments))]

\* lines 28, 59-63 and 79-84: the run ends with an error
Throw(rec, e) == [rec EXCEPT !.pc = "thrown", !.error = Some(OuterCatch(e))]

\* Mutant: the loop head without the check of the signal (lines 27-29).
LoopNoCancelCheck(rec, cur, ab) ==
  IF rec.i < Len(rec.playlist.segments)
    THEN [rec EXCEPT !.pc = "fetch", !.signal = cur,
                     !.fetchLog = Append(@, rec.i + 1),
                     !.events = Append(@, "fetch")]
    ELSE [rec EXCEPT !.pc = "returned", !.result = Some(MakeBlob(rec.segments))]

\* Mutant: the loop head checks the signal the run handed to its last fetch,
\* not the controller the instance holds now.
LoopChecksOwnSignal(rec, cur, ab) ==
  IF rec.i < Len(rec.playlist.segments)
    THEN IF rec.signal \in ab
           THEN Throw(rec, CancelledError)
           ELSE [rec EXCEPT !.pc = "fetch", !.signal = cur,
                            !.fetchLog = Append(@, rec.i + 1),
                            !.events = Append(@, "fetch")]
    ELSE [rec EXCEPT !.pc = "returned", !.result = Some(MakeBlob(rec.segments))]

\* lines 26-37 and 67-77: the head of the for loop at index rec.i (0-based),
\* with cur the instance's abortController and ab the aborted controllers
Loop(rec, cur, ab) ==
  IF rec.i < Len(rec.playlist.segments)
    THEN IF cur \in ab
           THEN Throw(rec, CancelledError)
           ELSE [rec EXCEPT !.pc = "fetch", !.signal = cur,
                            !.fetchLog = Append(@, rec.i + 1),
                            !.events = Append(@, "fetch")]
    ELSE [rec EXCEPT !.pc = "returned", !.result = Some(MakeBlob(rec.segments))]

\* Mutant: the inner catch reports the failure and goes on with the next
\* segment instead of rethrowing.
InnerCatchSkip(rec, e) ==
  IF e.name = "AbortError"
    THEN Throw(rec, e)
    ELSE Loop([rec EXCEPT !.errorLog = Append(@, [seg |-> rec.i + 1, cause |-> e]),
                          !.i = rec.i + 1],
              abortController, aborted)

\* Mutant: the inner catch without the test for AbortError: every failure is
\* reported through onError.
InnerCatchReportAll(rec, e) ==
  Throw([rec EXCEPT !.errorLog = Append(@, [seg |-> rec.i + 1, cause |-> e])], e)

\* Mutant: the inner catch rethrows without calling onError.
InnerCatchSilent(rec, e) == Throw(rec, e)

\* lines 58-64: the inner catch around one segment
InnerCatch(rec, e) ==
  IF e.name = "AbortError"
    THEN Throw(rec, e)
    ELSE Throw([rec EXCEPT !.errorLog = Append(@, [seg |-> rec.i + 1, cause |-> e])], e)

\* Mutant: the controller in place is kept when there is one.
ReuseAbortController(cur, n) == IF cur # 0 THEN cur ELSE n + 1

\* line 11: this.abortController = new AbortController().  cur is the
\* controller in place and n the number of controllers made so far; the new
\* controller is the next unused identity.
NewAbortController(cur, n) == n + 1

\* Mutant: a run on the playlist of the run before it takes up where that
\* run stopped.
downloadM3U8Resume(pl, cur, ab) ==
  IF runs # <<>> /\ Last(runs).playlist = pl /\ Last(runs).pc = "thrown"
    THEN Loop([Last(runs) EXCEPT !.pc = "start", !.error = None, !.errorLog = <<>>,
                                 !.fetchLog = <<>>, !.events = <<>>,
                                 !.progressLog = <<Last(@)>>],
              cur, ab)
    ELSE Loop([pc |-> "start", playlist |-> pl, i |-> 0, segments |-> <<>>,
               downloadedBytes |-> 0, totalBytes |-> 0, signal |-> 0,
               result |-> None, error |-> None,
               progressLog |-> <<Snapshot(0, Len(pl.segments), 0, 0, 0)>>,
               errorLog |-> <<>>, fetchLog |-> <<>>, events |-> <<"progress">>],
              cur, ab)

\* lines 11-26: the synchronous prefix of downloadM3U8
downloadM3U8(pl, cur, ab) ==
  Loop([pc |-> "start", playlist |-> pl, i |-> 0, segments |-> <<>>,
        downloadedBytes |-> 0, totalBytes |-> 0, signal |-> 0,
        result |-> None, error |-> None,
        progressLog |-> <<Snapshot(0, Len(pl.segments), 0, 0, 0)>>,
        errorLog |-> <<>>, fetchLog |-> <<>>, events |-> <<"progress">>],
       cur, ab)

\* Mutant: the next segment is fetched as soon as the response arrived,
\* without waiting for the body.
OnResponseNoBody(rec, ok) ==
  IF ~ok THEN InnerCatch(rec, NotOkError(rec.i + 1))
         ELSE Loop([rec EXCEPT !.i = rec.i + 1], abortController, aborted)

\* lines 39-41: the response arrived
OnResponse(rec, ok) ==
  IF ~ok THEN InnerCatch(rec, NotOkError(rec.i + 1))
         ELSE [rec EXCEPT !.pc = "body"]

\* Mutant: the snapshot counts the segments received, not their bytes.
OnBodyCountSegments(rec, buf, cur, ab) ==
  LET n    == Len(rec.playlist.segments)
      down == rec.downloadedBytes + 1
      tot  == rec.totalBytes + Len(buf)
      r1   == [rec EXCEPT !.segments = Append(@, buf),
                          !.downloadedBytes = down,
                          !.totalBytes = tot,
                          !.progressLog =
                             Append(@, Snapshot(rec.i + 1, n, down, tot,
                                                Percentage(rec.i + 1, n))),
                          !.events = @ \o <<"append", "progress">>,
                          !.i = rec.i + 1]
  IN Loop(r1, cur, ab)

\* Mutant: the snapshot of a segment is emitted when the next loop head has
\* been passed.
OnBodyProgressLate(rec, buf, cur, ab) ==
  LET n    == Len(rec.playlist.segments)
      down == rec.downloadedBytes + Len(buf)
      tot  == rec.totalBytes + Len(buf)
      r1   == [rec EXCEPT !.segments = Append(@, buf),
                          !.downloadedBytes = down,
                          !.totalBytes = tot,
                          !.events = Append(@, "append"),
                          !.i = rec.i + 1]
      r2   == Loop(r1, cur, ab)
  IN [r2 EXCEPT !.progressLog =
                   Append(@, Snapshot(rec.i + 1, n, down, tot, Percentage(rec.i + 1, n))),
                !.events = Append(@, "progress")]

\* lines 43-56 and the next loop head: the body arrived
OnBody(rec, buf, cur, ab) ==
  LET n    == Len(rec.playlist.segments)
      down == rec.downloadedBytes + Len(buf)
      tot  == rec.totalBytes + Len(buf)
      r1   == [rec EXCEPT !.segments = Append(@, buf),
                          !.downloadedBytes = down,
                          !.totalBytes = tot,
                          !.progressLog =
                             Append(@, Snapshot(rec.i + 1, n, down, tot,
                                                Percentage(rec.i + 1, n))),
                          !.events = @ \o <<"append", "progress">>,
                          !.i = rec.i + 1]
  IN Loop(r1, cur, ab)


\* ------------------------------------------------------------- strings
TagHeader         == "#EXTM3U"
TagVersion        == "#EXT-X-VERSION:"
TagTargetDuration == "#EXT-X-TARGETDURATION:"
TagMediaSequence  == "#EXT-X-MEDIA-SEQUENCE:"
TagExtinf         == "#EXTINF:"
SchemeHttp        == "http://"
SchemeHttps       == "https://"
SegmentTitle      == "Segment "

\* String.prototype.charAt(k - 1)
CharAt(s, k) == SubSeq(s, k, k)

Digits == "0123456789"
DigitChars == {CharAt(Digits, k) : k \in 1..10}
DigitVal(c) == (CHOOSE k \in 1..10 : CharAt(Digits, k) = c) - 1

\* The white space String.prototype.trim, parseInt and parseFloat strip
WhiteSpace == {" ", "\t", "\r", "\n"}

\* String.prototype.startsWith
StartsWith(s, p) == Len(s) >= Len(p) /\ SubSeq(s, 1, Len(p)) = p

\* s from its k-th character on (String.prototype.substring(k - 1))
From(s, k) == SubSeq(s, k, Len(s))

\* The pieces of s from its a-th character on, k being the place reached
RECURSIVE SplitAt(_, _, _, _)
SplitAt(s, sep, a, k) ==
  IF k > Len(s) THEN <<SubSeq(s, a, Len(s))>>
  ELSE IF CharAt(s, k) = sep THEN <<SubSeq(s, a, k - 1)>> \o SplitAt(s, sep, k + 1, k + 1)
  ELSE SplitAt(s, sep, a, k + 1)

\* String.prototype.split(sep) for a separator of one character
Split(s, sep) == SplitAt(s, sep, 1, 1)

RECURSIVE TrimStart(_)
TrimStart(s) ==
  IF s # "" /\ Head(s) \in WhiteSpace THEN TrimStart(Tail(s)) ELSE s

RECURSIVE TrimEnd(_)
TrimEnd(s) ==
  IF s # "" /\ CharAt(s, Len(s)) \in WhiteSpace THEN TrimEnd(SubSeq(s, 1, Len(s) - 1)) ELSE s

\* String.prototype.trim
Trim(s) == TrimEnd(TrimStart(s))

\* String.prototype.lastIndexOf for one character: the 0-based index, or -1
LastIndexOf(s, c) ==
  LET ks == {k \in 1..Len(s) : CharAt(s, k) = c}
  IN IF ks = {} THEN -1 ELSE (CHOOSE k \in ks : \A j \in ks : j <= k) - 1

\* The longest prefix of s made of characters of set
RECURSIVE Prefix(_, _)
Prefix(s, set) ==
  IF s # "" /\ Head(s) \in set THEN Head(s) \o Prefix(Tail(s), set) ELSE ""

\* Number.prototype.toString for a natural number
RECURSIVE NumberToString(_)
NumberToString(n) ==
  IF n < 10 THEN CharAt(Digits, n + 1)
  ELSE NumberToString(n \div 10) \o CharAt(Digits, (n % 10) + 1)

\* ------------------------------------------------------------- numbers
\* A JavaScript number: NaN, or a value.  parseInt yields the value in
\* units, parseFloat in thousandths.
NaN == [nan |-> TRUE, val |-> 0]
Num(v) == [nan |-> FALSE, val |-> v]

\* a + b
Add(a, b) == IF a.nan \/ b.nan THEN NaN ELSE Num(a.val + b.val)

\* The value of a string of decimal digits
RECURSIVE DecimalValue(_)
DecimalValue(ds) ==
  IF ds = "" THEN 0
  ELSE 10 * DecimalValue(SubSeq(ds, 1, Len(ds) - 1)) + DigitVal(CharAt(ds, Len(ds)))

\* The sign parseInt and parseFloat accept, and the rest of the string
Sign(s) == IF s # "" /\ Head(s) = "-" THEN -1 ELSE 1
Unsigned(s) == IF s # "" /\ Head(s) \in {"-", "+"} THEN Tail(s) ELSE s

\* parseInt(s) with no radix: white space, a sign, then decimal digits (the
\* inputs hold no 0x prefix)
parseInt(s) ==
  LET t  == TrimStart(s)
      ds == Prefix(Unsigned(t), DigitChars)
  IN IF ds = "" THEN NaN ELSE Num(Sign(t) * DecimalValue(ds))

\* parseFloat(s), in thousandths: white space, a sign, digits, a point,
\* digits (the inputs hold no exponent, no 'Infinity' and at most three
\* decimals)
parseFloat(s) ==
  LET t    == TrimStart(s)
      u    == Unsigned(t)
      ip   == Prefix(u, DigitChars)
      rest == From(u, Len(ip) + 1)
      fp   == IF rest # "" /\ Head(rest) = "." THEN Prefix(Tail(rest), DigitChars) ELSE ""
      f3   == SubSeq(fp \o "000", 1, 3)
  IN IF ip = "" /\ fp = "" THEN NaN
     ELSE Num(Sign(t) * (1000 * DecimalValue(ip) + DecimalValue(f3)))


\* ----------------------------------------------------------- M3U8Parser
FormatError == [name |-> "Error", message |-> "Invalid M3U8 file format", seg |-> 0]

\* lines[0] is undefined: reading its startsWith throws
UndefinedTypeError ==
  [name |-> "TypeError", message |-> "Cannot read properties of undefined", seg |-> 0]

\* How a call ended: it threw e, or it returned v
Threw(e) == [error |-> Some(e), value |-> None]
Returned(v) == [error |-> None, value |-> Some(v)]

\* Mutant: the reference is appended to the whole base address.
resolveUrlWholeBase(url, base) ==
  IF StartsWith(url, SchemeHttp) \/ StartsWith(url, SchemeHttps)
    THEN url
    ELSE base \o url

\* videoDownloader.ts 147-155
resolveUrl(url, base) ==
  IF StartsWith(url, SchemeHttp) \/ StartsWith(url, SchemeHttps)
    THEN url
    ELSE SubSeq(base, 1, LastIndexOf(base, "/") + 1) \o url

\* Array.prototype.map(line => line.trim())
RECURSIVE TrimAll(_)
TrimAll(ls) == IF ls = <<>> THEN <<>> ELSE <<Trim(Head(ls))>> \o TrimAll(Tail(ls))

\* Mutant: the lines are not trimmed.
LinesUntrimmed(text) == SelectSeq(Split(text, "\n"), LAMBDA l : l # "")

\* line 98: content.split('\n').map(line => line.trim()).filter(line => line)
Lines(text) == SelectSeq(TrimAll(Split(text, "\n")), LAMBDA l : l # "")

\* line 120: line.match(/#EXTINF:([\d.]+),?(.*)?/), its group 1 when it
\* matches.  The pattern is not anchored: it matches at the first place where
\* the tag is followed by a digit or a point.
MatchExtinf(line) ==
  LET DigitOrDot == DigitChars \cup {"."}
      At(p) == /\ p + Len(TagExtinf) <= Len(line)
               /\ SubSeq(line, p, p + Len(TagExtinf) - 1) = TagExtinf
               /\ CharAt(line, p + Len(TagExtinf)) \in DigitOrDot
      places == {p \in 1..Len(line) : At(p)}
  IN IF places = {} THEN None
     ELSE LET p == CHOOSE q \in places : \A q2 \in places : q <= q2
          IN Some(Prefix(From(line, p + Len(TagExtinf)), DigitOrDot))

\* lines 104-108: the variables of parsePlaylist before its loop
ParserStart ==
  [segments |-> <<>>, currentDuration |-> Num(0), targetDuration |-> Num(0),
   version |-> Num(1), mediaSequence |-> Num(0)]

\* Mutant: the pending duration is not reset after a segment.
ParseLineKeepDuration(st, line, base) ==
  IF StartsWith(line, TagVersion)
    THEN [st EXCEPT !.version = parseInt(Split(line, ":")[2])]
  ELSE IF StartsWith(line, TagTargetDuration)
    THEN [st EXCEPT !.targetDuration = parseFloat(Split(line, ":")[2])]
  ELSE IF StartsWith(line, TagMediaSequence)
    THEN [st EXCEPT !.mediaSequence = parseInt(Split(line, ":")[2])]
  ELSE IF StartsWith(line, TagExtinf)
    THEN IF MatchExtinf(line) # None
           THEN [st EXCEPT !.currentDuration = parseFloat(MatchExtinf(line)[1])]
           ELSE st
  ELSE IF ~StartsWith(line, "#") /\ Len(line) > 0
    THEN [st EXCEPT !.segments =
                       Append(@, [duration |-> st.currentDuration,
                                  uri |-> resolveUrl(line, base),
                                  title |-> SegmentTitle \o NumberToString(Len(st.segments) + 1)])]
  ELSE st

\* Mutant: a line with an unrecognised tag clears the pending duration.
ParseLineCommentResets(st, line, base) ==
  IF StartsWith(line, TagVersion)
    THEN [st EXCEPT !.version = parseInt(Split(line, ":")[2])]
  ELSE IF StartsWith(line, TagTargetDuration)
    THEN [st EXCEPT !.targetDuration = parseFloat(Split(line, ":")[2])]
  ELSE IF StartsWith(line, TagMediaSequence)
    THEN [st EXCEPT !.mediaSequence = parseInt(Split(line, ":")[2])]
  ELSE IF StartsWith(line, TagExtinf)
    THEN IF MatchExtinf(line) # None
           THEN [st EXCEPT !.currentDuration = parseFloat(MatchExtinf(line)[1])]
           ELSE st
  ELSE IF ~StartsWith(line, "#") /\ Len(line) > 0
    THEN [st EXCEPT !.segments =
                       Append(@, [duration |-> st.currentDuration,
                                  uri |-> resolveUrl(line, base),
                                  title |-> SegmentTitle \o NumberToString(Len(st.segments) + 1)]),
                    !.currentDuration = Num(0)]
  ELSE [st EXCEPT !.currentDuration = Num(0)]

\* lines 111-133: the body of the loop for one line
ParseLine(st, line, base) ==
  IF StartsWith(line, TagVersion)
    THEN [st EXCEPT !.version = parseInt(Split(line, ":")[2])]
  ELSE IF StartsWith(line, TagTargetDuration)
    THEN [st EXCEPT !.targetDuration = parseFloat(Split(line, ":")[2])]
  ELSE IF StartsWith(line, TagMediaSequence)
    THEN [st EXCEPT !.mediaSequence = parseInt(Split(line, ":")[2])]
  ELSE IF StartsWith(line, TagExtinf)
    THEN IF MatchExtinf(line) # None
           THEN [st EXCEPT !.currentDuration = parseFloat(MatchExtinf(line)[1])]
           ELSE st
  ELSE IF ~StartsWith(line, "#") /\ Len(line) > 0
    THEN [st EXCEPT !.segments =
                       Append(@, [duration |-> st.currentDuration,
                                  uri |-> resolveUrl(line, base),
                                  title |-> SegmentTitle \o NumberToString(Len(st.segments) + 1)]),
                    !.currentDuration = Num(0)]
  ELSE st

\* lines 110-134: the loop
RECURSIVE ParseLines(_, _, _)
ParseLines(st, lines, base) ==
  IF lines = <<>> THEN st
  ELSE ParseLines(ParseLine(st, Head(lines), base), Tail(lines), base)

\* Mutant: the duration of the last segment alone.
TotalDurationOfLast(segments) ==
  IF segments = <<>> THEN Num(0) ELSE Last(segments).duration

\* line 136: segments.reduce((sum, segment) => sum + segment.duration, 0)
RECURSIVE TotalDuration(_)
TotalDuration(segments) ==
  IF segments = <<>> THEN Num(0)
  ELSE Add(TotalDuration(SubSeq(segments, 1, Len(segments) - 1)), Last(segments).duration)

\* videoDownloader.ts 97-145
parsePlaylist(text, base) ==
  LET lines == Lines(text)
  IN IF lines = <<>> THEN Threw(UndefinedTypeError)
     ELSE IF ~StartsWith(lines[1], TagHeader) THEN Threw(FormatError)
     ELSE LET st == ParseLines(ParserStart, lines, base)
          IN Returned([segments |-> st.segments,
                       totalDuration |-> TotalDuration(st.segments),
                       targetDuration |-> st.targetDuration,
                       version |-> st.version,
                       mediaSequence |-> st.mediaSequence])

\* --------------------------------------------------------- the network
\* The address of the playlist the App is given
PlaylistUrl == "http://h/p/i.m3u8"

\* A playlist text of n segments: the header, then for segment k the lines
\* '#EXTINF:k,' and 'sk'
RECURSIVE PlaylistText(_)
PlaylistText(n) ==
  IF n = 0 THEN TagHeader
  ELSE PlaylistText(n - 1) \o "\n" \o TagExtinf \o NumberToString(n) \o ",\n"
         \o "s" \o NumberToString(n)

\* The same text of one segment without its header line
NoHeaderText == From(PlaylistText(1), Len(TagHeader) + 2)

\* The texts the server answers the playlist request with: playlists of no,
\* one and MaxSegs segments, and a text without the header
Responses == {PlaylistText(n) : n \in {0, 1, MaxSegs}} \cup {NoHeaderText}

\* The segment the server stores at address uri ('.../sk' is segment k)
Resource(uri) ==
  DecimalValue(Prefix(From(uri, LastIndexOf(uri, "/") + 3), DigitChars))

\* The addresses of the segments of the playlists the server hands
SegmentUrls == {resolveUrl("s" \o NumberToString(k), PlaylistUrl) : k \in 1..MaxSegs}

\* The bytes the server answers the request for each of them with
Served == [uri \in SegmentUrls |-> Body(Resource(uri))]

Init ==
  /\ state = "idle"
  /\ playlist = None
  /\ progress = None
  /\ error = "null"
  /\ downloadedBlob = None
  /\ directUrl = "null"
  /\ autoDownloadCountdown = 0
  /\ countdownTimer = FALSE
  /\ mounted = FALSE
  /\ pendingParses = 0
  /\ abortController = 0
  /\ aborted = {}
  /\ runs = <<>>
  /\ content = None
  /\ baseUrl = None
  /\ parsed = None

\* ------------------------------------------------------------ App effects
\* App.tsx 146-163: the countdown effect, run when one of its dependencies
\* [directUrl, state, playlist] changed from d0 to d1.  ct is the pair of the
\* countdown and the timer as the handler left them.
CountdownEffect(d0, d1, ct) ==
  IF d0 = d1 THEN ct
  ELSE IF d1[1] # "null" /\ d1[2] = "ready" /\ d1[3] # None
         THEN <<CountdownStart, TRUE>>
         ELSE <<ct[1], FALSE>>

Deps == <<directUrl, state, playlist>>

\* The handler changed the dependencies from d0 to d1 and left the
\* countdown and the timer as ct: the state after the render and its effect.
RenderFrom(d0, d1, ct) ==
  LET r == CountdownEffect(d0, d1, ct)
  IN /\ directUrl' = d1[1]
     /\ state' = d1[2]
     /\ playlist' = d1[3]
     /\ autoDownloadCountdown' = r[1]
     /\ countdownTimer' = r[2]

Render(d1, ct) == RenderFrom(Deps, d1, ct)

\* App.tsx 281-293: the message handleDownload shows for a failed run
DownloadErrorMessage(e) ==
  IF e.message = "Download cancelled" THEN "Download was cancelled by user"
  ELSE IF e.message = "Failed to fetch" THEN "Network error during download"
  ELSE "Download failed"

\* App.tsx 257-293: what the handleDownload call that awaits run rec does
\* when the run took a step from rec to new: onProgress is setProgress, and
\* when the run ended, the code after the await.
AfterRunStep(rec, new, d0, ct) ==
  LET st == IF new.pc = "returned" THEN "completed"
            ELSE IF new.pc = "thrown" THEN "ready" ELSE d0[2]
      d1 == <<d0[1], st, d0[3]>>
      r  == CountdownEffect(d0, d1, ct)
  IN /\ progress' = IF Len(new.progressLog) > Len(rec.progressLog)
                      THEN Some(Last(new.progressLog)) ELSE progress
     /\ downloadedBlob' = IF new.pc = "returned" THEN new.result ELSE downloadedBlob
     /\ error' = IF new.pc = "thrown" THEN DownloadErrorMessage(new.error[1]) ELSE error
     /\ state' = st
     /\ autoDownloadCountdown' = r[1]
     /\ countdownTimer' = r[2]

\* App.tsx 242-261: handleDownload up to its await, t the timer as the
\* caller left it
handleDownload(t) ==
  /\ playlist # None
  /\ Len(runs) < MaxRuns
  /\ LET id  == NewAbortController(abortController, Len(runs))
         new == downloadM3U8(playlist[1], id, aborted)
         d1  == <<directUrl, "downloading", playlist>>
         ct  == CountdownEffect(Deps, d1, <<0, t>>)
         old == [new EXCEPT !.progressLog = <<>>]
     IN /\ abortController' = id
        /\ runs' = Append(runs, new)
        /\ AfterRunStep(old, new, d1, ct)
        /\ UNCHANGED <<playlist, directUrl, mounted, pendingParses, aborted>>
        /\ UNCHANGED parserVars

\* Mutant: cancelDownload leaves the signal alone.
cancelDownloadNoAbort(cur, ab) == ab

\* VideoDownloader.cancelDownload, lines 87-91: abort the current controller
cancelDownload(cur, ab) == IF cur # 0 THEN ab \cup {cur} ELSE ab

\* ---------------------------------------------------------------- actions
\* App.tsx 120-143: the mount timer; the page location holds a valid direct
\* M3U8 URL or it does not
Mount ==
  /\ ~mounted
  /\ mounted' = TRUE
  /\ \/ /\ Render(<<"url", "parsing", None>>, <<0, countdownTimer>>)
        /\ error' = "null"
        /\ pendingParses' = pendingParses + 1
        /\ content' = None /\ baseUrl' = None /\ parsed' = None
     \/ /\ Render(<<"null", state, playlist>>, <<autoDownloadCountdown, countdownTimer>>)
        /\ UNCHANGED <<error, pendingParses>>
        /\ UNCHANGED parserVars
  /\ UNCHANGED <<progress, downloadedBlob, abortController, aborted, runs>>

\* App.tsx 165-175 and 442-448: the user submits the URL form
SubmitUrl ==
  /\ state = "idle"
  /\ directUrl = "null"
  /\ \/ /\ Render(<<directUrl, "parsing", None>>, <<0, countdownTimer>>)
        /\ error' = "null"
        /\ pendingParses' = pendingParses + 1
     \/ /\ Render(<<directUrl, "idle", None>>, <<0, countdownTimer>>)
        /\ error' = "Please provide a valid M3U8 URL"
        /\ UNCHANGED pendingParses
  /\ content' = None /\ baseUrl' = None /\ parsed' = None
  /\ UNCHANGED <<progress, downloadedBlob, mounted, abortController, aborted, runs>>

\* App.tsx 199-218: what handleUrlSubmit does with the text it received,
\* up to setPlaylist: the playlist it accepts, or the error it throws
EmptyResponseError ==
  [name |-> "Error", message |-> "Received empty response from M3U8 URL", seg |-> 0]
NoSegmentsError ==
  [name |-> "Error", message |-> "No video segments found in M3U8 playlist", seg |-> 0]

\* Mutant: the playlist is accepted without the test of lines 213-215.
AcceptEmptyPlaylist(text, url) ==
  IF Trim(text) = "" THEN Threw(EmptyResponseError) ELSE parsePlaylist(text, url)

AcceptPlaylist(text, url) ==
  IF Trim(text) = "" THEN Threw(EmptyResponseError)
  ELSE LET res == parsePlaylist(text, url)
       IN IF res.error # None THEN res
          ELSE IF Len(res.value[1].segments) = 0 THEN Threw(NoSegmentsError)
          ELSE res

\* App.tsx 220-237: the message the catch of handleUrlSubmit shows
SubmitErrorMessage(e) ==
  IF e.message = "Failed to fetch" THEN "Network Error"
  ELSE IF e.message \in {FormatError.message, NoSegmentsError.message}
    THEN "Invalid M3U8 Format"
  ELSE "Processing Error"

\* What parsePlaylist and handleUrlSubmit make of each text the server
\* answers with
Parsed == [text \in Responses |-> parsePlaylist(text, PlaylistUrl)]
Accepted == [text \in Responses |-> AcceptPlaylist(text, PlaylistUrl)]

\* App.tsx 199-239: the text of the playlist arrived
ParsedPlaylist ==
  /\ pendingParses > 0
  /\ pendingParses' = pendingParses - 1
  /\ \E text \in Responses :
        LET res == Accepted[text]
        IN /\ IF Trim(text) = ""
                THEN content' = None /\ baseUrl' = None /\ parsed' = None
                ELSE /\ content' = Some(text)
                     /\ baseUrl' = Some(PlaylistUrl)
                     /\ parsed' = Some(Parsed[text])
           /\ IF res.error # None
                THEN /\ Render(<<directUrl, "idle", playlist>>,
                               <<autoDownloadCountdown, countdownTimer>>)
                     /\ error' = SubmitErrorMessage(res.error[1])
                ELSE \* the parsed playlist is a new object: the effect runs again
                     /\ RenderFrom(<<directUrl, state, None>>,
                                   <<directUrl, "ready", res.value>>,
                                   <<autoDownloadCountdown, countdownTimer>>)
                     /\ UNCHANGED error
  /\ UNCHANGED <<progress, downloadedBlob, mounted, abortController, aborted, runs>>

\* App.tsx 177-203 and 220-239: the request for the playlist failed (fetch
\* rejected, status not ok, or empty text)
ParseFailed ==
  /\ pendingParses > 0
  /\ pendingParses' = pendingParses - 1
  /\ \E msg \in {"Network Error", "Server Error", "Processing Error"} :
        error' = msg
  /\ Render(<<directUrl, "idle", playlist>>, <<autoDownloadCountdown, countdownTimer>>)
  /\ content' = None
  /\ baseUrl' = None
  /\ parsed' = None
  /\ UNCHANGED <<progress, downloadedBlob, mounted, abortController, aborted, runs>>

\* App.tsx 477-482 and 487-495: the Start Now / Start Download buttons
ClickDownload ==
  /\ state = "ready"
  /\ playlist # None
  /\ directUrl # "null" => autoDownloadCountdown # 0
  /\ handleDownload(countdownTimer)

\* App.tsx 149-159: one tick of the countdown interval
Tick ==
  /\ countdownTimer
  /\ IF autoDownloadCountdown > 1
       THEN /\ autoDownloadCountdown' = autoDownloadCountdown - 1
            /\ UNCHANGED <<state, playlist, progress, error, downloadedBlob,
                           directUrl, countdownTimer, mounted, pendingParses,
                           abortController, aborted, runs, content, baseUrl, parsed>>
       ELSE handleDownload(FALSE)

\* App.tsx 297-302 and 388-395: the cancel button of the progress bar
handleCancelDownload ==
  /\ state = "downloading"
  /\ progress # None
  /\ aborted' = cancelDownload(abortController, aborted)
  /\ Render(<<directUrl, "ready", playlist>>, <<0, countdownTimer>>)
  /\ progress' = None
  /\ UNCHANGED <<error, downloadedBlob, mounted, pendingParses, abortController, runs>>
  /\ UNCHANGED parserVars

\* App.tsx 317-326 and 530-535: Download Another
handleReset ==
  /\ state = "completed"
  /\ downloadedBlob # None
  /\ Render(<<"null", "idle", None>>, <<0, countdownTimer>>)
  /\ progress' = None
  /\ error' = "null"
  /\ downloadedBlob' = None
  /\ UNCHANGED <<mounted, pendingParses, abortController, aborted, runs>>
  /\ UNCHANGED parserVars

\* ---- the awaited promises of a run settle
Runs == 1..Len(runs)

RunStep(r, new) ==
  /\ runs' = [runs EXCEPT ![r] = new]
  /\ AfterRunStep(runs[r], new, Deps, <<autoDownloadCountdown, countdownTimer>>)
  /\ UNCHANGED <<playlist, directUrl, mounted, pendingParses, abortController, aborted>>
  /\ UNCHANGED parserVars

\* line 34: fetch resolves with a response, ok or not
FetchResponse ==
  \E r \in Runs :
    /\ runs[r].pc = "fetch"
    /\ runs[r].signal \notin aborted
    /\ \E ok \in BOOLEAN : RunStep(r, OnResponse(runs[r], ok))

\* line 34: fetch rejects with a transport failure
FetchFailed ==
  \E r \in Runs :
    /\ runs[r].pc = "fetch"
    /\ runs[r].signal \notin aborted
    /\ RunStep(r, InnerCatch(runs[r], FetchTypeError))

\* line 43: the body is read in full
BodyRead ==
  \E r \in Runs :
    /\ runs[r].pc = "body"
    /\ runs[r].signal \notin aborted
    /\ RunStep(r, OnBody(runs[r], Served[runs[r].playlist.segments[runs[r].i + 1].uri],
                         abortController, aborted))

\* line 43: reading the body fails
BodyFailed ==
  \E r \in Runs :
    /\ runs[r].pc = "body"
    /\ runs[r].signal \notin aborted
    /\ RunStep(r, InnerCatch(runs[r], BodyTypeError))

\* lines 34 and 43: the signal handed to fetch is aborted, the pending
\* promise rejects with an AbortError
FetchAborted ==
  \E r \in Runs :
    /\ runs[r].pc \in {"fetch", "body"}
    /\ runs[r].signal \in aborted
    /\ RunStep(r, InnerCatch(runs[r], AbortError))

Next ==
  \/ Mount
  \/ SubmitUrl
  \/ ParsedPlaylist
  \/ ParseFailed
  \/ ClickDownload
  \/ Tick
  \/ handleCancelDownload
  \/ handleReset
  \/ FetchResponse
  \/ FetchFailed
  \/ BodyRead
  \/ BodyFailed
  \/ FetchAborted

Spec == Init /\ [][Next]_vars

\* Run r takes a step: the promise it awaits settles
SettleRun(r) ==
  /\ r \in Runs
  /\ FetchResponse \/ FetchFailed \/ BodyRead \/ BodyFailed \/ FetchAborted
  /\ runs'[r] # runs[r]

\* Every fetch and every body read that a run started settles in the end
\* (the network answers or fails; an aborted one rejects)
FairSpec == Spec /\ \A r \in 1..MaxRuns : WF_vars(SettleRun(r))

\* ------------------------------------------------- M3U8Parser on its own
\* The parts the texts are made of: lines, and two pairs of lines
Parts ==
  { "#EXTM3U",
    " ",
    "#EXT-X-VERSION:3",
    "#EXT-X-VERSION:0",
    "#EXT-X-MEDIA-SEQUENCE:7",
    "\t#EXT-X-TARGETDURATION:10 ",
    "#EXTINF:9.5,\n#EXT-X-BYTERANGE:1@0",
    "#EXTINF:abc,",
    "#EXTINF:-5,",
    "#EXTINF:...,",
    "#EXTINF:1.2.3,",
    "# c",
    " s1\r",
    "http://c/a",
    "#EXTINF:4,t\ns2" }

\* The text made of the parts ps, one part to a line
RECURSIVE Join(_)
Join(ps) ==
  IF Len(ps) = 0 THEN ""
  ELSE IF Len(ps) = 1 THEN ps[1]
  ELSE Join(SubSeq(ps, 1, Len(ps) - 1)) \o "\n" \o Last(ps)

\* The base addresses: the address of the playlist, and one without a '/'
BaseUrls == {PlaylistUrl, "b"}

\* parsePlaylist is about to be called with a text and a base address
ParserInit ==
  /\ \E n \in 0..MaxParts : \E ps \in [1..n -> Parts] : content = Some(Join(ps))
  /\ baseUrl \in {Some(b) : b \in BaseUrls}
  /\ parsed = None
  /\ state = "idle"
  /\ playlist = None
  /\ progress = None
  /\ error = "null"
  /\ downloadedBlob = None
  /\ directUrl = "null"
  /\ autoDownloadCountdown = 0
  /\ countdownTimer = FALSE
  /\ mounted = FALSE
  /\ pendingParses = 0
  /\ abortController = 0
  /\ aborted = {}
  /\ runs = <<>>

\* videoDownloader.ts 97-145: the call of parsePlaylist
ParseContent ==
  /\ parsed = None
  /\ parsed' = Some(parsePlaylist(content[1], baseUrl[1]))
  /\ UNCHANGED <<state, playlist, progress, error, downloadedBlob, directUrl,
                 autoDownloadCountdown, countdownTimer, mounted, pendingParses,
                 abortController, aborted, runs, content, baseUrl>>

ParserNext == ParseContent

ParserSpec == ParserInit /\ [][ParserNext]_vars


\* ------------------------------------------ the progress snapshots of a run
\* lines 18-24: a run on a playlist of n segments has reported its first
\* snapshot to onProgress, which is the App's setProgress
ProgressInit ==
  /\ \E n \in 1..MaxTotal : progress = Some(Snapshot(0, n, 0, 0, 0))
  /\ state = "downloading"
  /\ playlist = None
  /\ error = "null"
  /\ downloadedBlob = None
  /\ directUrl = "null"
  /\ autoDownloadCountdown = 0
  /\ countdownTimer = FALSE
  /\ mounted = TRUE
  /\ pendingParses = 0
  /\ abortController = 0
  /\ aborted = {}
  /\ runs = <<>>
  /\ content = None
  /\ baseUrl = None
  /\ parsed = None

\* lines 43-56: the next segment was received and its snapshot is reported
ReportProgress ==
  /\ progress[1].segmentIndex < progress[1].totalSegments
  /\ LET k   == progress[1].segmentIndex + 1
         n   == progress[1].totalSegments
         len == Len(Body(k))
     IN progress' = Some(Snapshot(k, n, progress[1].downloadedBytes + len,
                                  progress[1].totalBytes + len, Percentage(k, n)))
  /\ UNCHANGED <<state, playlist, error, downloadedBlob, directUrl,
                 autoDownloadCountdown, countdownTimer, mounted, pendingParses,
                 abortController, aborted, runs, content, baseUrl, parsed>>

ProgressNext == ReportProgress

ProgressSpec == ProgressInit /\ [][ProgressNext]_vars


\* =================================================================== claims
NumSegs(r) == Len(runs[r].playlist.segments)
Active(r) == runs[r].pc \in {"fetch", "body"}

\* ------------------------------------------------------------------- C1
\* C1: a run that returned a result called onProgress exactly N+1 times,
\* with segmentIndex 0, 1, ..., N in that order, percentages that never
\* decrease, and a last percentage of exactly 100.
C1_ProgressSequence ==
  \A r \in Runs :
    LET log == runs[r].progressLog
    IN /\ \A k \in 1..Len(log) : log[k].segmentIndex = k - 1
       /\ runs[r].pc = "returned" =>
            /\ Len(log) = NumSegs(r) + 1
            /\ \A k \in 1..(Len(log) - 1) : log[k].percentage <= log[k + 1].percentage
            /\ Last(log).percentage = 100

C1_Witness ==
  \E r \in Runs :
    /\ runs[r].pc = "returned"
    /\ NumSegs(r) >= 2
    /\ Len(runs[r].progressLog) = NumSegs(r) + 1
    /\ aborted = {}

\* ------------------------------------------------------------------- C2
\* The bytes the server holds for the segments 1..n of a playlist, in order.
RECURSIVE ServedBytes(_, _)
ServedBytes(segs, n) ==
  IF n = 0 THEN <<>> ELSE ServedBytes(segs, n - 1) \o Served[segs[n].uri]

RECURSIVE ServedLength(_, _)
ServedLength(segs, n) ==
  IF n = 0 THEN 0 ELSE ServedLength(segs, n - 1) + Len(Served[segs[n].uri])

\* C2: the result of a run is the fetched buffers of segments 1..N
\* concatenated in playlist order, byte for byte, its length is the sum of the
\* segment lengths, and its media type is 'video/mp4'.
C2_Concatenation ==
  \A r \in Runs :
    runs[r].pc = "returned" =>
      LET segs == runs[r].playlist.segments
          blob == runs[r].result[1]
      IN /\ blob.bytes = ServedBytes(segs, Len(segs))
         /\ Len(blob.bytes) = ServedLength(segs, Len(segs))
         /\ blob.type = "video/mp4"

C2_Witness ==
  \E r \in Runs :
    /\ runs[r].pc = "returned"
    /\ runs[r].segments = << <<11, 12>>, <<21>> >>
    /\ runs[r].result = Some([bytes |-> <<11, 12, 21>>, type |-> "video/mp4"])

\* ------------------------------------------------------------------- C3
\* C3: a run fetches its segments in playlist order, one at a time: the
\* fetches started are those of segments 1, 2, ..., and the fetch of segment
\* k+1 is started only when the bodies of segments 1..k have been received.
C3_Sequential ==
  \A r \in Runs :
    LET log == runs[r].fetchLog
    IN /\ \A k \in 1..Len(log) : log[k] = k
       /\ Len(log) <= Len(runs[r].segments) + 1
       /\ Active(r) => Len(log) = Len(runs[r].segments) + 1
       /\ runs[r].pc = "returned" => Len(log) = Len(runs[r].segments)

C3_Witness ==
  \E r \in Runs :
    /\ runs[r].pc = "fetch"
    /\ runs[r].fetchLog = <<1, 2>>
    /\ Len(runs[r].segments) = 1

\* ------------------------------------------------------------------- C4
\* Run r reaches the loop head in this step: it is started, or the body of
\* its segment has just been appended and a segment remains.
AtBoundary(r) ==
  \/ r > Len(runs)
  \/ /\ r <= Len(runs)
     /\ runs[r].pc = "body"
     /\ Len(runs'[r].segments) = Len(runs[r].segments) + 1
     /\ Len(runs'[r].segments) < Len(runs'[r].playlist.segments)

SegmentFailure(r) ==
  /\ runs[r].pc = "thrown"
  /\ runs[r].error # Some(CancelledError)

\* C5: the error of a run that failed at segment k for a reason other than
\* cancellation names the index k (the segment whose fetch was the last one
\* started) and carries the cause.
C5_ErrorNamesSegment ==
  \A r \in Runs :
    SegmentFailure(r) =>
      /\ runs[r].error[1].seg = Last(runs[r].fetchLog)
      /\ runs[r].error[1].name # "AbortError"

\* ------------------------------------------------------------------- C6
\* C6: once the fetch of a segment has failed, the run is over: it has no
\* result, it starts no further fetch and emits no further progress event,
\* and the failing step stores no blob in the App.
C6_FailureIsFinal ==
  [][\A r \in 1..Len(runs') :
       (runs'[r].errorLog # <<>> \/ runs'[r].pc = "thrown") =>
         /\ runs'[r].pc = "thrown"
         /\ runs'[r].result = None
         /\ Len(runs'[r].errorLog) <= 1
         /\ (r <= Len(runs) /\ runs[r].pc # "thrown") => downloadedBlob' = downloadedBlob
         /\ (r <= Len(runs) /\ runs[r].pc = "thrown") => runs'[r] = runs[r]]_vars

C6_Witness ==
  \E r \in Runs :
    /\ SegmentFailure(r)
    /\ Len(runs[r].segments) >= 1
    /\ Len(runs[r].errorLog) = 1
    /\ runs[r].result = None

\* ------------------------------------------------------------------- C7
\* Run r ends in this step because of cancellation: the signal its pending
\* fetch holds is aborted, or it reaches a boundary while the instance's
\* signal is aborted.
EndsByCancellation(r) ==
  \/ /\ r <= Len(runs)
     /\ Active(r)
     /\ runs[r].signal \in aborted
  \/ /\ AtBoundary(r)
     /\ abortController' \in aborted'

\* C7: a run that ends because of cancellation fails with the one error
\* 'Download cancelled', and no run ever fails with an error named AbortError.
C7_SingleCancelError ==
  [][\A r \in 1..Len(runs') :
       /\ runs'[r].pc = "thrown" => runs'[r].error[1].name # "AbortError"
       /\ (EndsByCancellation(r) /\ runs'[r] # runs[r]) =>
            /\ runs'[r].pc = "thrown"
            /\ runs'[r].error = Some(CancelledError)]_vars

C7_Witness ==
  \E r \in Runs :
    /\ runs[r].pc = "thrown"
    /\ runs[r].error = Some(CancelledError)
    /\ runs[r].signal \in aborted
    /\ Len(runs[r].fetchLog) = Len(runs[r].segments) + 1

\* ------------------------------------------------------------------- C8
\* Cancellation has been requested for run r: the controller the run made,
\* or the one its pending fetch holds, is aborted.
CancelRequested(r) == r \in aborted \/ runs[r].signal \in aborted

\* C8: a run that fails when cancellation has been requested for it fails
\* with the cancellation error: no segment error is reported through onError
\* or thrown, and the App shows the cancellation message.
C8_CancelPrecedence ==
  [][\A r \in Runs :
       (Active(r) /\ CancelRequested(r) /\ runs'[r].pc = "thrown") =>
         /\ runs'[r].error[1].message = "Download cancelled"
         /\ runs'[r].error[1].seg = 0
         /\ runs'[r].errorLog = <<>>
         /\ error' = "Download was cancelled by user"]_vars

C8_Witness ==
  \E r \in Runs :
    /\ runs[r].pc = "thrown"
    /\ r \in aborted
    /\ runs[r].error = Some(CancelledError)
    /\ runs[r].errorLog = <<>>
    /\ error = "Download was cancelled by user"

\* ------------------------------------------------------------------- C9
\* C9 as stated: once the signal of the instance is aborted it stays aborted.
C9_SignalWriteOnce ==
  [][(abortController # 0 /\ abortController \in aborted) =>
       abortController' \in aborted']_vars

\* C9 amended: the signal of each AbortController is write-once and a run
\* whose pending fetch holds an aborted signal can only fail with the
\* cancellation error, fetching nothing more; but each downloadM3U8 installs a
\* fresh controller, whose signal is not aborted, so a later invocation does
\* not observe an earlier cancellation and starts its first fetch.
C9_PerControllerWriteOnce ==
  [][/\ aborted \subseteq aborted'
     /\ \A r \in Runs :
          (Active(r) /\ runs[r].signal \in aborted /\ runs'[r] # runs[r]) =>
            /\ runs'[r].pc = "thrown"
            /\ runs'[r].error = Some(CancelledError)
            /\ runs'[r].fetchLog = runs[r].fetchLog
     /\ Len(runs') > Len(runs) =>
          /\ abortController' \notin aborted'
          /\ abortController' \notin {runs[r].signal : r \in Runs}
          /\ Last(runs').pc = "fetch" \/ Len(Last(runs').playlist.segments) = 0]_vars

C9_Witness ==
  \E r \in Runs :
    /\ r >= 2
    /\ (r - 1) \in aborted
    /\ abortController = r
    /\ abortController \notin aborted
    /\ runs[r].pc = "fetch"

\* ------------------------------------------------------------------ C10
\* C10: at most one run of downloadM3U8 is active on the instance.
C10_SingleActiveRun ==
  Cardinality({r \in Runs : Active(r)}) <= 1

\* ------------------------------------------------------------------ C11
\* The buffers a run holds are those of the first segments of its own playlist.
OwnSegments(rec) ==
  \A k \in 1..Len(rec.segments) :
    rec.segments[k] = Served[rec.playlist.segments[k].uri]

\* C11: no retry and no resume.  A run never fetches a segment twice; a run
\* that starts, whatever the runs before it did, starts with no buffer, zeroed
\* byte counters, the all-zero snapshot as its only progress event and the
\* fetch of segment 1 as its only fetch, and leaves the earlier runs as they
\* are; the buffers, the byte count and the result of a run come from its own
\* fetches alone.
C11_NoRetryNoResume ==
  [][/\ \A r \in 1..Len(runs') :
          LET new == runs'[r]
          IN (r > Len(runs) \/ new # runs[r]) =>
             /\ \A j, k \in 1..Len(new.fetchLog) :
                  new.fetchLog[j] = new.fetchLog[k] => j = k
             /\ OwnSegments(new)
             /\ new.downloadedBytes = ServedLength(new.playlist.segments, Len(new.segments))
             /\ Last(new.progressLog).downloadedBytes = new.downloadedBytes
             /\ new.pc = "returned" =>
                  new.result[1].bytes = ServedBytes(new.playlist.segments,
                                                    Len(new.playlist.segments))
     /\ Len(runs') > Len(runs) =>
          LET new == Last(runs')
          IN /\ Len(runs') = Len(runs) + 1
             /\ \A r \in Runs : runs'[r] = runs[r]
             /\ new.i = 0
             /\ new.segments = <<>>
             /\ new.downloadedBytes = 0
             /\ new.totalBytes = 0
             /\ new.progressLog = <<Snapshot(0, Len(new.playlist.segments), 0, 0, 0)>>
             /\ new.fetchLog = <<1>>]_vars

\* A run fetches segment 1 after an earlier run on the same playlist failed,
\* was cancelled or completed with buffers in hand.
C11_Witness ==
  \E r \in Runs :
    /\ r >= 2
    /\ runs[r - 1].pc \in {"thrown", "returned"}
    /\ Len(runs[r - 1].segments) >= 1
    /\ runs[r].playlist = runs[r - 1].playlist
    /\ runs[r].pc = "fetch"
    /\ runs[r].fetchLog = <<1>>
    /\ runs[r].segments = <<>>

\* ------------------------------------------------------------------ C12
\* The byte and segment counts of the snapshots a run has emitted so far
SnapshotBytes ==
  \A r \in Runs :
    LET log  == runs[r].progressLog
        segs == runs[r].playlist.segments
    IN /\ \A k \in 1..Len(log) :
            /\ log[k].totalBytes = log[k].downloadedBytes
            /\ log[k].totalSegments = Len(segs)
            /\ log[k].segmentIndex <= Len(segs)
            /\ log[k].downloadedBytes = ServedLength(segs, log[k].segmentIndex)
       /\ log[1].downloadedBytes = 0
       /\ \A k \in 1..(Len(log) - 1) : log[k].downloadedBytes <= log[k + 1].downloadedBytes
       /\ runs[r].pc = "returned" =>
            Last(log).downloadedBytes = Len(runs[r].result[1].bytes)

\* C12: at all times, in every snapshot of a run totalBytes equals downloadedBytes,
\* totalSegments is the number of segments of the playlist, and
\* downloadedBytes is the sum of the lengths of the segments 1..segmentIndex;
\* downloadedBytes never decreases from one snapshot to the next, and the
\* last snapshot of a run that returned states the length of the result.
C12_SnapshotBytes == []SnapshotBytes

C12_Witness ==
  \E r \in Runs :
    /\ runs[r].pc = "returned"
    /\ Len(runs[r].progressLog) = 3
    /\ Last(runs[r].progressLog).downloadedBytes = 3
    /\ Last(runs[r].progressLog).totalBytes = 3
    /\ Len(runs[r].result[1].bytes) = 3

\* ------------------------------------------------------------------ C13
\* The lines of a text, trimmed, the blank ones left out
NonBlankLines(text) ==
  LET ls == Split(text, "\n")
      NonBlank(l) == \E k \in 1..Len(l) : CharAt(l, k) \notin WhiteSpace
  IN TrimAll(SelectSeq(ls, NonBlank))

\* The first non-blank line of the text starts with the header tag
HasHeader(text) ==
  /\ NonBlankLines(text) # <<>>
  /\ StartsWith(NonBlankLines(text)[1], TagHeader)

\* The non-blank lines that do not start with '#', in the order of the text
References(text) == SelectSeq(NonBlankLines(text), LAMBDA l : Head(l) # "#")

\* parsePlaylist has been called and returned a playlist
ParsedOk == parsed # None /\ parsed[1].error = None
ParsedPlaylistValue == parsed[1].value[1]

\* C13: for a text whose first non-blank line starts with '#EXTM3U',
\* parsePlaylist returns a playlist with one segment for each non-blank line
\* that does not start with '#', in the order of the text, the uri of the
\* i-th segment being the resolution of the i-th such line.
C13_SegmentPerLine ==
  (parsed # None /\ HasHeader(content[1])) =>
    /\ ParsedOk
    /\ LET segs == ParsedPlaylistValue.segments
           refs == References(content[1])
       IN /\ Len(segs) = Len(refs)
          /\ \A i \in 1..Len(refs) : segs[i].uri = resolveUrl(refs[i], baseUrl[1])

\* header, ' s1\r', 'http://c/a' parsed against the playlist address
C13_Witness ==
  /\ ParsedOk
  /\ Len(NonBlankLines(content[1])) = 3
  /\ Len(ParsedPlaylistValue.segments) = 2
  /\ ParsedPlaylistValue.segments[1].uri =
       "http://h/p/s1"
  /\ ParsedPlaylistValue.segments[2].uri = "http://c/a"

\* ------------------------------------------------------------------ C14
\* The sum of the durations of the segments, from the first one on
RECURSIVE SumOfDurations(_)
SumOfDurations(segs) ==
  IF segs = <<>> THEN Num(0) ELSE Add(Head(segs).duration, SumOfDurations(Tail(segs)))

\* C14: the totalDuration of a playlist parsePlaylist returned is the sum of
\* the durations of its segments, 0 when it has no segment.
C14_TotalDuration ==
  ParsedOk =>
    /\ ParsedPlaylistValue.totalDuration = SumOfDurations(ParsedPlaylistValue.segments)
    /\ ParsedPlaylistValue.segments = <<>> => ParsedPlaylistValue.totalDuration = Num(0)

\* two segments of 4 seconds each: 8 seconds
C14_Witness ==
  /\ ParsedOk
  /\ Len(ParsedPlaylistValue.segments) = 2
  /\ ParsedPlaylistValue.segments[1].duration = Num(4000)
  /\ ParsedPlaylistValue.segments[2].duration = Num(4000)
  /\ ParsedPlaylistValue.totalDuration = Num(8000)

\* ------------------------------------------------------------------ C15
\* C15: for a text whose first non-blank line does not start with '#EXTM3U',
\* or that has no non-blank line, parsePlaylist fails with the error
\* 'Invalid M3U8 file format' and returns no playlist.
C15_FormatErrorWithoutHeader ==
  (parsed # None /\ ~HasHeader(content[1])) => parsed[1] = Threw(FormatError)

\* ------------------------------------------------------------------ C16
\* The base address up to and including its last '/' (nothing when it has none)
TruncatedBase(base) ==
  LET ends == {p \in 0..Len(base) : p = 0 \/ CharAt(base, p) = "/"}
  IN SubSeq(base, 1, CHOOSE p \in ends : \A q \in ends : q <= p)

\* C16: a reference that starts with 'http://' or 'https://' is the uri of
\* its segment unchanged; any other reference gives the base address
\* truncated just after its last '/' followed by the reference; base
\* 'https://host/path/index.m3u8' and reference 'seg1.ts' give
\* 'https://host/path/seg1.ts'.
C16_AddressResolution ==
  /\ ParsedOk =>
       LET segs == ParsedPlaylistValue.segments
           refs == References(content[1])
       IN \A i \in 1..Len(segs) :
            IF StartsWith(refs[i], SchemeHttp) \/ StartsWith(refs[i], SchemeHttps)
              THEN segs[i].uri = refs[i]
              ELSE segs[i].uri = TruncatedBase(baseUrl[1]) \o refs[i]
  /\ resolveUrl("seg1.ts", "https://host/path/index.m3u8") = "https://host/path/seg1.ts"

\* an absolute reference kept, and a relative one resolved against the
\* playlist address
C16_Witness ==
  /\ ParsedOk
  /\ baseUrl = Some(PlaylistUrl)
  /\ \E i, j \in 1..Len(ParsedPlaylistValue.segments) :
       /\ References(content[1])[i] = "http://c/a"
       /\ ParsedPlaylistValue.segments[i].uri = References(content[1])[i]
       /\ References(content[1])[j] = "s2"
       /\ ParsedPlaylistValue.segments[j].uri = "http://h/p/s2"

\* ------------------------------------------------------------------ C17
\* The declarations of a tag in the text, in order
Declarations(text, tag) == SelectSeq(NonBlankLines(text), LAMBDA l : StartsWith(l, tag))

\* The field of a tag: the integer after the colon of the last declaration,
\* or the default when the text has none
DeclaredInteger(text, tag, default) ==
  IF Declarations(text, tag) = <<>> THEN Num(default)
  ELSE parseInt(From(Last(Declarations(text, tag)), Len(tag) + 1))

\* C17: of a playlist parsePlaylist returned, version is an integer >= 1,
\* 1 when the text declares none, and mediaSequence is an integer, 0 when
\* the text declares none; a field that is declared is the integer after the
\* colon of its last declaration.
C17_VersionAndSequence ==
  ParsedOk =>
    /\ ~ParsedPlaylistValue.version.nan
    /\ ParsedPlaylistValue.version.val >= 1
    /\ ParsedPlaylistValue.version = DeclaredInteger(content[1], TagVersion, 1)
    /\ ~ParsedPlaylistValue.mediaSequence.nan
    /\ ParsedPlaylistValue.mediaSequence = DeclaredInteger(content[1], TagMediaSequence, 0)

\* ------------------------------------------------------------------ C18
\* A text with the header and no segment line
SegmentLess(text) == HasHeader(text) /\ References(text) = <<>>

\* The texts of that kind among those the server answers with
SegmentLessResponses == {text \in Responses : SegmentLess(text)}

\* C18: parsePlaylist returns a playlist of zero segments for a text that
\* has the header and no segment line, and the App rejects it: the
\* handleUrlSubmit that receives it shows the format error and goes to 'idle'
\* without storing the playlist; the App never stores a playlist without
\* segments and downloadM3U8 is never called with one.
C18_EmptyPlaylistRejected ==
  [][/\ (pendingParses' < pendingParses /\ content' # None /\ content'[1] \in SegmentLessResponses) =>
          /\ parsed'[1].error = None
          /\ parsed'[1].value[1].segments = <<>>
          /\ error' = "Invalid M3U8 Format"
          /\ state' = "idle"
          /\ playlist' = playlist
     /\ playlist' # None => playlist'[1].segments # <<>>
     /\ \A r \in 1..Len(runs') : runs'[r].playlist.segments # <<>>]_vars

\* the header-only text has just been rejected
C18_Witness ==
  /\ content = Some(TagHeader)
  /\ ParsedOk
  /\ ParsedPlaylistValue.segments = <<>>
  /\ state = "idle"
  /\ error = "Invalid M3U8 Format"
  /\ playlist = None
  /\ pendingParses = 0

\* ------------------------------------------------------------------ C19
\* The step is a click on the cancel button
CancelStep ==
  /\ runs' = runs
  /\ pendingParses' = pendingParses
  /\ state = "downloading"
  /\ state' = "ready"

\* C19: cancelDownload aborts the signal of the instance's controller, the
\* one the boundary check reads and the one the fetch of the run that
\* installed it holds; a run whose fetch of segment k is in flight on an
\* aborted signal terminates with the cancellation error, with no progress
\* event for segment k or a later one, no further fetch and no result, and
\* stays terminated.
C19_InFlightCancel ==
  [][/\ CancelStep =>
          /\ abortController \in aborted'
          /\ \A r \in Runs :
               (Active(r) /\ runs[r].signal = abortController) => CancelRequested(r)'
     /\ \A r \in Runs :
          (Active(r) /\ runs[r].signal \in aborted /\ runs'[r] # runs[r]) =>
            /\ runs'[r].pc = "thrown"
            /\ runs'[r].error = Some(CancelledError)
            /\ runs'[r].progressLog = runs[r].progressLog
            /\ Last(runs'[r].progressLog).segmentIndex = Last(runs[r].fetchLog) - 1
            /\ runs'[r].fetchLog = runs[r].fetchLog
            /\ runs'[r].result = None
     /\ \A r \in Runs : runs[r].pc = "thrown" => runs'[r] = runs[r]]_vars

\* the fetch of segment 2 was in flight when the download was cancelled
C19_Witness ==
  \E r \in Runs :
    /\ runs[r].pc = "thrown"
    /\ runs[r].error = Some(CancelledError)
    /\ runs[r].signal \in aborted
    /\ runs[r].fetchLog = <<1, 2>>
    /\ Len(runs[r].progressLog) = 2
    /\ runs[r].result = None

\* ------------------------------------------------------------------ C20
\* What a run does for each segment in turn, after its first snapshot
EventCycle == <<"fetch", "append", "progress">>

\* The events of a run so far follow the cycle fetch, append, progress
ProgressOrder ==
  \A r \in Runs :
    LET ev == runs[r].events
        n  == Len(ev)
    IN /\ ev[1] = "progress"
       /\ runs[r].progressLog[1] = Snapshot(0, NumSegs(r), 0, 0, 0)
       /\ \A k \in 1..Len(runs[r].progressLog) : runs[r].progressLog[k].segmentIndex = k - 1
       /\ \A k \in 1..Len(runs[r].fetchLog) : runs[r].fetchLog[k] = k
       /\ \A p \in 2..n : ev[p] = EventCycle[((p - 2) % 3) + 1]
       /\ Len(runs[r].fetchLog) = (n + 1) \div 3
       /\ Len(runs[r].segments) = n \div 3
       /\ Len(runs[r].progressLog) = 1 + (n - 1) \div 3

\* C20: at all times, in the order a run performs them, the all-zero snapshot comes first,
\* before any fetch; then, for each segment k in turn, the fetch of segment k
\* is started, its buffer is appended and the snapshot of segment k is
\* emitted: the fetch of segment k+1 is started after the snapshot of segment
\* k, and that snapshot after the buffer of segment k was appended.  (The j-th
\* fetch, the j-th buffer and the j-th snapshot after the first are those of
\* segment j.)
C20_ProgressOrder == []ProgressOrder

C20_Witness ==
  \E r \in Runs :
    runs[r].events = <<"progress", "fetch", "append", "progress", "fetch">>

\* ------------------------------------------------------------------ C21
\* A well-formed non-negative decimal number: digits, then possibly a point
\* and digits
IsDecimal(s) ==
  LET ip   == Prefix(s, DigitChars)
      rest == From(s, Len(ip) + 1)
  IN /\ ip # ""
     /\ \/ rest = ""
        \/ /\ Head(rest) = "."
           /\ Len(rest) > 1
           /\ Prefix(Tail(rest), DigitChars) = Tail(rest)

\* The duration field of a declaration: what stands between the tag and the
\* first comma (or the end of the line)
DurationField(line) == Split(From(line, Len(TagExtinf) + 1), ",")[1]

\* The line is a duration declaration, and its field is a well-formed number
IsDeclaration(line) == StartsWith(line, TagExtinf)
WellFormedDeclaration(line) == IsDeclaration(line) /\ IsDecimal(DurationField(line))

\* The number a well-formed declaration states, in thousandths
DeclaredDuration(line) ==
  LET f == Split(DurationField(line), ".")
  IN Num(1000 * DecimalValue(f[1])
         + (IF Len(f) = 2 THEN DecimalValue(SubSeq(f[2] \o "000", 1, 3)) ELSE 0))

\* Every duration declaration of the text is well formed
WellDeclared(text) ==
  \A k \in 1..Len(NonBlankLines(text)) :
    IsDeclaration(NonBlankLines(text)[k]) => WellFormedDeclaration(NonBlankLines(text)[k])

\* The places of the segment lines among the lines ls
ReferencePlaces(ls) == SelectSeq([k \in 1..Len(ls) |-> k], LAMBDA k : Head(ls[k]) # "#")

\* The duration declared for line k of ls: that of the last declaration
\* before it that no segment line separates from it, 0 when there is none
RECURSIVE DurationFor(_, _)
DurationFor(ls, k) ==
  IF k = 1 \/ Head(ls[k - 1]) # "#" THEN Num(0)
  ELSE IF IsDeclaration(ls[k - 1]) THEN DeclaredDuration(ls[k - 1])
  ELSE DurationFor(ls, k - 1)

\* The durations and titles of the parsed segments follow the declarations
PendingDuration ==
  (parsed # None /\ HasHeader(content[1]) /\ WellDeclared(content[1])) =>
    /\ ParsedOk
    /\ LET segs   == ParsedPlaylistValue.segments
           ls     == NonBlankLines(content[1])
           places == ReferencePlaces(ls)
       IN /\ Len(segs) = Len(places)
          /\ \A i \in 1..Len(places) :
               /\ segs[i].duration = DurationFor(ls, places[i])
               /\ segs[i].title = "Segment " \o CharAt("123456789", i)

\* C21: for a text with the header whose duration declarations are well
\* formed, the duration of each segment parsePlaylist returns is the value of
\* the last declaration that stands after the previous segment line (or the
\* start of the text) and before its own line, 0 when there is none, and its
\* title is 'Segment k', k its 1-based position among the segments.
C21_PendingDuration == []PendingDuration

\* header, '#EXTINF:4,t', 's2', 'http://c/a': the declaration is applied to
\* the first segment alone
C21_Witness ==
  /\ ParsedOk
  /\ WellDeclared(content[1])
  /\ Len(ParsedPlaylistValue.segments) = 2
  /\ ParsedPlaylistValue.segments[1].duration = Num(4000)
  /\ ParsedPlaylistValue.segments[1].title = "Segment 1"
  /\ ParsedPlaylistValue.segments[2].duration = Num(0)
  /\ ParsedPlaylistValue.segments[2].title = "Segment 2"

\* ------------------------------------------------------------------ C22
\* The duration pending at line k of ls when the malformed declarations
\* leave it as it was: that of the last well-formed declaration before it
\* that no segment line separates from it, 0 when there is none
RECURSIVE ToleratedDurationFor(_, _)
ToleratedDurationFor(ls, k) ==
  IF k = 1 \/ Head(ls[k - 1]) # "#" THEN Num(0)
  ELSE IF WellFormedDeclaration(ls[k - 1]) THEN DeclaredDuration(ls[k - 1])
  ELSE ToleratedDurationFor(ls, k - 1)

\* C22: whatever stands in the duration field of its '#EXTINF:' lines, a text
\* with the header is parsed without error, a declaration whose field is not
\* a well-formed non-negative decimal number leaves the pending duration as
\* it was, and every segment duration is a non-negative number.
C22_MalformedTolerated ==
  (parsed # None /\ HasHeader(content[1])) =>
    /\ ParsedOk
    /\ LET segs   == ParsedPlaylistValue.segments
           ls     == NonBlankLines(content[1])
           places == ReferencePlaces(ls)
       IN \A i \in 1..Len(segs) :
            /\ ~segs[i].duration.nan
            /\ segs[i].duration.val >= 0
            /\ segs[i].duration = ToleratedDurationFor(ls, places[i])

\* ------------------------------------------------------------------ C23
\* The line starts with one of the tags parsePlaylist recognises
Recognised(line) ==
  \/ StartsWith(line, TagVersion)
  \/ StartsWith(line, TagTargetDuration)
  \/ StartsWith(line, TagMediaSequence)
  \/ StartsWith(line, TagExtinf)

\* The text without what is said not to matter: its first non-blank line,
\* then its segment lines and its lines with a recognised tag, every line
\* without the white space around it, and no blank line
Essential(text) ==
  LET ls == NonBlankLines(text)
  IN Join(<<ls[1]>> \o SelectSeq(Tail(ls), LAMBDA l : Head(l) # "#" \/ Recognised(l)))

\* The parsed playlist is that of the text stripped to its essential lines
CommentsIgnored ==
  (parsed # None /\ HasHeader(content[1])) =>
    /\ ParsedOk
    /\ parsed[1] = parsePlaylist(Essential(content[1]), baseUrl[1])

\* C23: for a text whose first non-blank line starts with the header,
\* parsePlaylist returns, without error, the playlist it returns for the
\* text stripped of its lines that start with '#' with no recognised tag, of
\* its blank lines and of the white space around its lines; so two texts that
\* differ by such lines and white space give the same playlist.
C23_CommentsIgnored == []CommentsIgnored

\* an unrecognised tag between a declaration and its segment line, which
\* has white space around it
C23_Witness ==
  /\ ParsedOk
  /\ content = Some("#EXTM3U\n#EXTINF:9.5,\n#EXT-X-BYTERANGE:1@0\n s1\r")
  /\ Essential(content[1]) = "#EXTM3U\n#EXTINF:9.5,\ns1"
  /\ Len(ParsedPlaylistValue.segments) = 1
  /\ ParsedPlaylistValue.segments[1].duration = Num(9500)
  /\ ParsedPlaylistValue.totalDuration = Num(9500)

\* ------------------------------------------------------------------ C24
\* cancelDownload has been called since the last invocation of downloadM3U8
CancelPending == abortController # 0 /\ abortController \in aborted

RunSettles == runs' # runs /\ Len(runs') = Len(runs)

\* C25: after handleCancelDownload the App is in 'ready', and as long as no
\* download has been started since, no step of a run takes it out of 'ready'
\* or stores a blob.
C25_StaysReadyAfterCancel ==
  [][(state = "ready" /\ CancelPending /\ RunSettles) =>
       /\ state' = "ready"
       /\ downloadedBlob' = downloadedBlob]_vars

\* ------------------------------------------------------------------ C26
\* The App comes back from 'downloading' to 'ready' with the playlist it
\* had: the download was cancelled, or it failed
ReturnsToReady ==
  /\ state = "downloading"
  /\ state' = "ready"
  /\ playlist' = playlist
  /\ pendingParses' = pendingParses

\* C26: when the App returns to 'ready' after a cancelled or failed
\* download with a direct URL set, the auto-download countdown is not started
\* again: no countdown is shown and no interval is armed.
C26_NoCountdownRestart ==
  [][(ReturnsToReady /\ directUrl # "null") =>
       /\ autoDownloadCountdown' = 0
       /\ ~countdownTimer']_vars

\* ------------------------------------------------------------------ C27
\* C27: onError has not been called in a run that is still fetching, that
\* returned, or that ended with the cancellation error; in a run that ended
\* with another error it has been called once, for the segment whose fetch
\* the run started last, with the cause the run then throws.
C27_OnErrorOnce ==
  \A r \in Runs :
    LET log == runs[r].errorLog
    IN IF runs[r].pc = "thrown" /\ runs[r].error # Some(CancelledError)
         THEN /\ Len(log) = 1
              /\ log[1].seg = Last(runs[r].fetchLog)
              /\ log[1].seg = Len(runs[r].segments) + 1
              /\ runs[r].error = Some(log[1].cause)
              /\ runs[r].result = None
         ELSE log = <<>>

\* the second segment of a run failed (status not ok, transport failure or
\* failure of the body) after the first was received
C27_Witness ==
  \E r \in Runs :
    /\ runs[r].pc = "thrown"
    /\ Len(runs[r].errorLog) = 1
    /\ runs[r].errorLog[1].seg = 2
    /\ runs[r].errorLog[1].cause \in {NotOkError(2), FetchTypeError, BodyTypeError}
    /\ Len(runs[r].progressLog) = 2

\* ------------------------------------------------------------------ C28
\* The snapshot last reported
Reported == progress[1]

\* p is an integer nearest to 100 k / n
Nearest(p, k, n) == 200 * k - n <= 2 * p * n /\ 2 * p * n <= 200 * k + n

\* C28 as stated: the percentage of a snapshot is an integer in 0..100
\* nearest to 100 segmentIndex / N, and it is 100 in the snapshot of the last
\* segment alone.
C28_HundredOnlyAtEnd ==
  /\ Reported.percentage \in 0..100
  /\ Nearest(Reported.percentage, Reported.segmentIndex, Reported.totalSegments)
  /\ Reported.percentage = 100 => Reported.segmentIndex = Reported.totalSegments

\* C28, amended: the percentage of a snapshot is an integer in 0..100 nearest
\* to 100 segmentIndex / N; when 100 segmentIndex / N is a half m + 0.5 it is
\* m + 1, except for m = 14, 28, 56, 57 where it is m.  It is 100 in the
\* snapshot of the last segment, and in an earlier snapshot exactly when
\* segmentIndex / N >= 0.995: never for N < 200, and for every N >= 200 in
\* the snapshot of segment N - 1.
C28_PercentageRounded ==
  LET p == Reported.percentage
      k == Reported.segmentIndex
      n == Reported.totalSegments
      m == (100 * k) \div n
  IN /\ p \in 0..100
     /\ Nearest(p, k, n)
     /\ 200 * k = (2 * m + 1) * n => p = IF m \in {14, 28, 56, 57} THEN m ELSE m + 1
     /\ k = n => p = 100
     /\ p = 100 <=> 200 * k >= 199 * n
     /\ (p = 100 /\ k < n) => n >= 200
     /\ (k = n - 1 /\ n >= 200) => p = 100

\* 249 of 250 segments are received and 100 percent is reported
C28_Witness ==
  /\ Reported.totalSegments = 250
  /\ Reported.segmentIndex = 249
  /\ Reported.percentage = 100

\* ------------------------------------------------------------------ C29
\* The run ended
Ended(r) == runs[r].pc \in {"thrown", "returned"}

\* The three ways a run ends
EndedWithResult(r) ==
  /\ runs[r].pc = "returned"
  /\ runs[r].result # None
  /\ runs[r].error = None
  /\ runs[r].errorLog = <<>>
  /\ Len(runs[r].segments) = NumSegs(r)
  /\ runs[r].fetchLog = [k \in 1..NumSegs(r) |-> k]

EndedCancelled(r) ==
  /\ runs[r].pc = "thrown"
  /\ runs[r].error = Some(CancelledError)
  /\ runs[r].result = None
  /\ runs[r].errorLog = <<>>

EndedWithFailure(r) ==
  /\ runs[r].pc = "thrown"
  /\ runs[r].error # None
  /\ runs[r].error # Some(CancelledError)
  /\ runs[r].result = None
  /\ Len(runs[r].errorLog) = 1

\* A run has one outcome at most, keeps it, and does not go on after a failure
OneOutcome ==
  \A r \in Runs :
    /\ Ended(r) => (EndedWithResult(r) \/ EndedCancelled(r) \/ EndedWithFailure(r))
    /\ ~Ended(r) => (runs[r].result = None /\ runs[r].error = None /\ runs[r].errorLog = <<>>)

\* C29: when every fetch a run started settles in the end, every run ends;
\* it ends with a result after the fetch of each of its N segments, or with
\* the cancellation error, or with the failure of a segment, never with both
\* a result and an error, and never goes on after a failure.
C29_Termination ==
  /\ \A r \in 1..MaxRuns : (Len(runs) >= r) ~> (Len(runs) >= r /\ Ended(r))
  /\ []OneOutcome

\* a run over the longest playlist ended with its result, one was cancelled
\* and one failed
C29_Witness ==
  \E r \in Runs :
    /\ EndedWithResult(r)
    /\ NumSegs(r) = MaxSegs
    /\ \E q \in Runs : EndedCancelled(q) \/ EndedWithFailure(q)

====
